---- MODULE Spec2Model ----
(***************************************************************************)
(* A model of the two notebooks of src/Parallel.ipynb:                     *)
(*   - the worker-pool cells of "Parallelizing your code"                  *)
(*     (ThreadPoolExecutor / ProcessPoolExecutor used in with blocks),     *)
(*   - the lru_cache(maxsize=4) cell of "Optimizing your code",            *)
(*   - the six linear-interpolation strategies,                            *)
(*   - the top-to-bottom execution of the optimisation notebook's cells.   *)
(***************************************************************************)
EXTENDS Integers, Sequences, FiniteSets, TLC

VARIABLES
    \* ---- worker pool (one with block at a time) ----
    cellIdx,        \* index into PoolCells of the cell being run (0: none yet)
    mainPc,         \* "idle" | "submit" | "iterate" | "join" | "done"
    maxWorkers,     \* max_workers of the pool of the current with block
    tasks,          \* work items of the cell: a sequence of argument chunks
    resultKind,     \* "sin" (f) or "hash" (hash_one): the mapped function
    futState,       \* per submitted work item: "pending" | "running" | "finished"
    futResult,      \* per submitted work item: its result chunk (<<>>: not set)
    workQueue,      \* FIFO of work item indices; 0 is the None wake-up sentinel
    numThreads,     \* len(self._threads): workers started so far
    exitedThreads,  \* workers that have returned from _worker
    idleSem,        \* self._idle_semaphore
    shutdownFlag,   \* self._shutdown
    yielded,        \* the values handed to the with block's body, in order
    yieldedIdx,     \* the work items whose results were handed over, in order
    releasing,      \* workers between future.set_result and _idle_semaphore.release()
    startedAfterExit, \* history: a work item began running after the block exited
    \* ---- compute_a_slow_result_cache ----
    cache,          \* the lru_cache links, oldest first: records [key, result]
    full,           \* the wrapper's "full" flag
    history,        \* history: every argument used so far, least recently used first
    last,           \* history: the latest call (arg, ran, result, keysBefore, histBefore)
    \* ---- the interpolation strategies ----
    haveArrays,     \* y0 and y1 have been built (the cell n = ...; y0 = ...; y1 = ...)
    inY0, inY1,     \* the arrays y0 and y1 (equal length, as the notebook builds them)
    inX0, inX1, inX, \* x0, x1, x in halves (4 is 2.0, 5 is 2.5, 6 is 3.0)
    numbaBound,     \* the kernel's global name numba is bound (import numba has run)
    results,        \* per strategy: the outcome of its latest call on these inputs
    \* ---- the optimisation notebook run top to bottom ----
    nbPc,           \* the next code cell to run (0: kernel not started)
    env,            \* the third-party packages the kernel can import
    ns,             \* the names bound in the kernel's namespace
    nbOutcome       \* per cell run so far: "ok" or the error it ended in

poolVars == <<cellIdx, mainPc, maxWorkers, tasks, resultKind, futState, futResult,
              workQueue, numThreads, exitedThreads, idleSem, shutdownFlag,
              yielded, yieldedIdx, releasing, startedAfterExit>>

cacheVars == <<cache, full, history, last>>

interpVars == <<haveArrays, inY0, inY1, inX0, inX1, inX, numbaBound, results>>

nbVars == <<nbPc, env, ns, nbOutcome>>

vars == <<poolVars, cacheVars, interpVars, nbVars>>

(***************************************************************************)
(* Helpers                                                                 *)
(***************************************************************************)
Range(s) == {s[i] : i \in DOMAIN s}

(***************************************************************************)
(* The pool cells of the parallel notebook                                 *)
(***************************************************************************)
\* tasks = np.arange(0,10)
NumTasks == 10
\* hash_all_process(10) mapped with chunksize=2
HashN == 10
ChunkSize == 2
MaxWorkersSingle == 1
MaxWorkersThreads == 8
MaxWorkersProcesses == 4

\* np.sin(x) for x = 0..9 and the x = 10 of the first cell, in thousandths
SinMilli == <<0, 841, 909, 141, -757, -959, -279, 657, 989, 412, -544>>

\* def f(x): return np.sin(x)
f(x) == SinMilli[x + 1]

\* hash_one(n): the loop only burns CPU; the value returned is "done"
hash_one(n) == "done"

\* _get_chunks(range(n), chunksize): consecutive chunks of the arguments
Chunks(n, size) ==
    [c \in 1..((n + size - 1) \div size) |->
        [j \in 1..(IF c * size <= n THEN size ELSE n - (c - 1) * size) |->
            (c - 1) * size + j - 1]]

\* The with blocks, in notebook order
PoolCells == <<
    [line |-> 91,  workers |-> MaxWorkersSingle,    kind |-> "sin",  args |-> << <<10>> >>],
    [line |-> 113, workers |-> MaxWorkersThreads,   kind |-> "sin",  args |-> [i \in 1..NumTasks |-> <<i - 1>>]],
    [line |-> 151, workers |-> MaxWorkersThreads,   kind |-> "sin",  args |-> [i \in 1..NumTasks |-> <<i - 1>>]],
    [line |-> 172, workers |-> MaxWorkersThreads,   kind |-> "sin",  args |-> [i \in 1..NumTasks |-> <<i - 1>>]],
    [line |-> 247, workers |-> MaxWorkersProcesses, kind |-> "hash", args |-> Chunks(HashN, ChunkSize)] >>

\* work_item.run(): fn applied to the item's arguments (a chunk of them)
RunItem(kind, chunk) ==
    IF kind = "sin" THEN [j \in DOMAIN chunk |-> f(chunk[j])]
                    ELSE [j \in DOMAIN chunk |-> hash_one(chunk[j])]

Running == {i \in DOMAIN futState : futState[i] = "running"}

\* workers blocked in work_queue.get(block=True)
BlockedWorkers == numThreads - exitedThreads - Cardinality(Running) - releasing

InitPool ==
    /\ cellIdx = 0
    /\ mainPc = "idle"
    /\ maxWorkers = 0
    /\ tasks = <<>>
    /\ resultKind = "sin"
    /\ futState = <<>>
    /\ futResult = <<>>
    /\ workQueue = <<>>
    /\ numThreads = 0
    /\ exitedThreads = 0
    /\ idleSem = 0
    /\ shutdownFlag = FALSE
    /\ yielded = <<>>
    /\ yieldedIdx = <<>>
    /\ releasing = 0
    /\ startedAfterExit = FALSE

\* with ThreadPoolExecutor(max_workers=k) as e: / ProcessPoolExecutor(max_workers=4)
EnterWith ==
    /\ mainPc \in {"idle", "done"}
    /\ cellIdx < Len(PoolCells)
    /\ cellIdx' = cellIdx + 1
    /\ mainPc' = "submit"
    /\ maxWorkers' = PoolCells[cellIdx + 1].workers
    /\ tasks' = PoolCells[cellIdx + 1].args
    /\ resultKind' = PoolCells[cellIdx + 1].kind
    /\ futState' = <<>>
    /\ futResult' = <<>>
    /\ workQueue' = <<>>
    /\ numThreads' = 0
    /\ exitedThreads' = 0
    /\ idleSem' = 0
    /\ shutdownFlag' = FALSE
    /\ yielded' = <<>>
    /\ yieldedIdx' = <<>>
    /\ releasing' = 0
    /\ startedAfterExit' = FALSE
    /\ UNCHANGED <<cacheVars, interpVars, nbVars>>

\* variant: _adjust_thread_count without the max_workers test
SpawnUnbounded == TRUE

\* _adjust_thread_count: a new worker only while fewer than max_workers exist
CanSpawn == numThreads < maxWorkers

\* e.submit(f, x): queue the work item, then _adjust_thread_count()
Submit ==
    /\ mainPc = "submit"
    /\ ~shutdownFlag
    /\ Len(futState) < Len(tasks)
    /\ futState' = Append(futState, "pending")
    /\ futResult' = Append(futResult, <<>>)
    /\ workQueue' = Append(workQueue, Len(futState) + 1)
    /\ IF idleSem > 0
         THEN /\ idleSem' = idleSem - 1
              /\ numThreads' = numThreads
         ELSE /\ idleSem' = idleSem
              /\ numThreads' = IF CanSpawn THEN numThreads + 1 ELSE numThreads
    /\ mainPc' = IF Len(futState) + 1 = Len(tasks) THEN "iterate" ELSE "submit"
    /\ UNCHANGED <<cellIdx, maxWorkers, tasks, resultKind, exitedThreads,
                   shutdownFlag, yielded, yieldedIdx, startedAfterExit, releasing>>
    /\ UNCHANGED <<cacheVars, interpVars, nbVars>>

\* _worker: work_item = work_queue.get(block=True); a real item starts running
WorkerGetItem ==
    /\ BlockedWorkers > 0
    /\ workQueue # <<>>
    /\ Head(workQueue) # 0
    /\ futState' = [futState EXCEPT ![Head(workQueue)] = "running"]
    /\ workQueue' = Tail(workQueue)
    /\ startedAfterExit' = (startedAfterExit \/ mainPc = "done")
    /\ UNCHANGED <<cellIdx, mainPc, maxWorkers, tasks, resultKind, futResult,
                   numThreads, exitedThreads, idleSem, shutdownFlag, yielded,
                   yieldedIdx, releasing>>
    /\ UNCHANGED <<cacheVars, interpVars, nbVars>>

\* _worker: work_item.run(): fn runs to its end and future.set_result(result)
WorkerFinish ==
    \E i \in Running :
        /\ futState' = [futState EXCEPT ![i] = "finished"]
        /\ futResult' = [futResult EXCEPT ![i] = RunItem(resultKind, tasks[i])]
        /\ releasing' = releasing + 1
        /\ UNCHANGED <<cellIdx, mainPc, maxWorkers, tasks, resultKind, workQueue,
                       numThreads, exitedThreads, idleSem, shutdownFlag, yielded,
                       yieldedIdx, startedAfterExit>>
        /\ UNCHANGED <<cacheVars, interpVars, nbVars>>

\* _worker: executor._idle_semaphore.release(); continue
WorkerRelease ==
    /\ releasing > 0
    /\ releasing' = releasing - 1
    /\ idleSem' = idleSem + 1
    /\ UNCHANGED <<cellIdx, mainPc, maxWorkers, tasks, resultKind, futState,
                   futResult, workQueue, numThreads, exitedThreads, shutdownFlag,
                   yielded, yieldedIdx, startedAfterExit>>
    /\ UNCHANGED <<cacheVars, interpVars, nbVars>>

\* _worker: the None sentinel with executor._shutdown set: put it back, return
WorkerExit ==
    /\ BlockedWorkers > 0
    /\ workQueue # <<>>
    /\ Head(workQueue) = 0
    /\ shutdownFlag
    /\ workQueue' = Append(Tail(workQueue), 0)
    /\ exitedThreads' = exitedThreads + 1
    /\ UNCHANGED <<cellIdx, mainPc, maxWorkers, tasks, resultKind, futState,
                   futResult, numThreads, idleSem, shutdownFlag, yielded,
                   yieldedIdx, startedAfterExit, releasing>>
    /\ UNCHANGED <<cacheVars, interpVars, nbVars>>

\* variant: results handed over as they complete (as_completed order)
ReadyAnyOrder(i) == futState[i] = "finished"

\* result_iterator: fs.reverse(); fs.pop().result() -- the next future in
\* submission order, waited for until it is finished
ReadyToYield(i) == i = Len(yieldedIdx) + 1 /\ futState[i] = "finished"

\* for x in e.map(f, tasks) / [x.result() for x in futures] / futures.result()
MainNext ==
    /\ mainPc = "iterate"
    /\ \E i \in DOMAIN futState :
        /\ i \notin Range(yieldedIdx)
        /\ ReadyToYield(i)
        /\ yielded' = yielded \o futResult[i]
        /\ yieldedIdx' = Append(yieldedIdx, i)
    /\ UNCHANGED <<cellIdx, mainPc, maxWorkers, tasks, resultKind, futState,
                   futResult, workQueue, numThreads, exitedThreads, idleSem,
                   shutdownFlag, startedAfterExit, releasing>>
    /\ UNCHANGED <<cacheVars, interpVars, nbVars>>

\* __exit__: shutdown(wait=True): set _shutdown, wake the workers with None
MainShutdown ==
    /\ mainPc = "iterate"
    /\ Len(yieldedIdx) = Len(tasks)
    /\ shutdownFlag' = TRUE
    /\ workQueue' = Append(workQueue, 0)
    /\ mainPc' = "join"
    /\ UNCHANGED <<cellIdx, maxWorkers, tasks, resultKind, futState, futResult,
                   numThreads, exitedThreads, idleSem, yielded, yieldedIdx,
                   startedAfterExit, releasing>>
    /\ UNCHANGED <<cacheVars, interpVars, nbVars>>

\* variant: shutdown(wait=False), no join
NoJoin == TRUE

\* shutdown(wait=True): for t in self._threads: t.join()
AllJoined == exitedThreads = numThreads

\* __exit__ returns: control leaves the with block
MainLeave ==
    /\ mainPc = "join"
    /\ AllJoined
    /\ mainPc' = "done"
    /\ UNCHANGED <<cellIdx, maxWorkers, tasks, resultKind, futState, futResult,
                   workQueue, numThreads, exitedThreads, idleSem, shutdownFlag,
                   yielded, yieldedIdx, startedAfterExit, releasing>>
    /\ UNCHANGED <<cacheVars, interpVars, nbVars>>

(***************************************************************************)
(* compute_a_slow_result_cache: functools.lru_cache(maxsize=4)             *)
(***************************************************************************)
\* @lru_cache(maxsize=4)
CacheMaxsize == 4
\* the arguments tried: 1..MaxArg (random.randint(1,100) cut down)
MaxArg == 6
Args == 1..MaxArg

NoCall == [arg |-> 0, ran |-> FALSE, result |-> 0, keysBefore |-> {},
           histBefore |-> <<>>]

\* the decorated body: time.sleep(0.1); return x*2
compute_a_slow_result(x) == x * 2

CacheKeys(c) == {c[i].key : i \in DOMAIN c}

RECURSIVE Without(_, _)
Without(s, k) ==
    IF s = <<>> THEN <<>>
    ELSE IF Head(s) = k THEN Without(Tail(s), k)
    ELSE <<Head(s)>> \o Without(Tail(s), k)

RECURSIVE WithoutKey(_, _)
WithoutKey(c, k) ==
    IF c = <<>> THEN <<>>
    ELSE IF Head(c).key = k THEN WithoutKey(Tail(c), k)
    ELSE <<Head(c)>> \o WithoutKey(Tail(c), k)

Lookup(c, k) == (CHOOSE i \in DOMAIN c : c[i].key = k)

\* variant: a hit leaves the link where it is (first-in first-out eviction)
NoMoveToFront(c, k) == c

\* a hit: the link is moved to the front of the circular queue (most recent)
MoveToFront(c, k) == Append(WithoutKey(c, k), c[Lookup(c, k)])

\* a miss with full set: the oldest link (root.NEXT) is emptied, the new
\* key and result take the old root's place (most recent)
EvictOldest(c, k, r) == Append(Tail(c), [key |-> k, result |-> r])

\* variant: full = (cache_len() > maxsize)
IsFullOffByOne(n) == n > CacheMaxsize

\* full = (cache_len() >= maxsize)
IsFull(n) == n >= CacheMaxsize

InitCache ==
    /\ cache = <<>>
    /\ full = FALSE
    /\ history = <<>>
    /\ last = NoCall

\* compute_a_slow_result_cache(x): the lru_cache wrapper
CallCached(x) ==
    /\ history' = Append(Without(history, x), x)
    /\ IF x \in CacheKeys(cache)
         THEN /\ cache' = MoveToFront(cache, x)
              /\ full' = full
              /\ last' = [arg |-> x, ran |-> FALSE,
                          result |-> cache[Lookup(cache, x)].result,
                          keysBefore |-> CacheKeys(cache), histBefore |-> history]
         ELSE LET r == compute_a_slow_result(x) IN
              /\ IF full
                   THEN /\ cache' = EvictOldest(cache, x, r)
                        /\ full' = full
                   ELSE /\ cache' = Append(cache, [key |-> x, result |-> r])
                        /\ full' = IsFull(Len(cache) + 1)
              /\ last' = [arg |-> x, ran |-> TRUE, result |-> r,
                          keysBefore |-> CacheKeys(cache), histBefore |-> history]
    /\ UNCHANGED <<poolVars, interpVars, nbVars>>

NextCache == \E x \in Args : CallCached(x)

(***************************************************************************)
(* The interpolation strategies                                            *)
(*   y = (exp(y0^2) (x1 - x) + y1 (x - x0)) / (x1 - x0)                    *)
(* Numbers are exact: y0 in units, exp(.) and y1 in thousandths, x0, x1, x *)
(* in halves; a quotient is a reduced fraction of thousandths, or one of   *)
(* the IEEE specials inf, -inf, nan.                                       *)
(***************************************************************************)
\* longest array tried
MaxLen == 2
Y0Values == {0, 1}
Y1Milli == {0, 1000}
\* x0 and x1 are 2 or 3, x is 2, 2.5 or 3 (the notebook calls f(y0, y1, 2, 3, 2.5))
X01Halves == {4, 6}
XHalves == {4, 5, 6}

Strategies == {"linear_interpolate", "linear_interpolate_numexpr", "linear_cython",
               "linear_interpolate_bad", "linear_interpolate_good",
               "linear_interpolate_best"}

NotRun == [kind |-> "notrun", exc |-> "", val |-> <<>>]
Value(v) == [kind |-> "value", exc |-> "", val |-> v]
Raised(e) == [kind |-> "error", exc |-> e, val |-> <<>>]

Abs(a) == IF a < 0 THEN -a ELSE a

RECURSIVE Gcd(_, _)
Gcd(a, b) == IF b = 0 THEN a ELSE Gcd(b, a % b)

\* the finite quotient n / d (d # 0) as a reduced fraction
Fin(n, d) ==
    LET sn == IF d < 0 THEN -n ELSE n
        sd == Abs(d)
        g == Gcd(Abs(sn), sd)
    IN [cls |-> "fin", num |-> sn \div g, den |-> sd \div g]

Special(c) == [cls |-> c, num |-> 0, den |-> 0]

\* IEEE-754 division, as numpy, numexpr and C perform it: no exception
IeeeDiv(n, d) ==
    IF d # 0 THEN Fin(n, d)
    ELSE IF n > 0 THEN Special("inf")
    ELSE IF n < 0 THEN Special("-inf")
    ELSE Special("nan")

\* np.exp / exp, in thousandths: e^0 = 1.000, e^1 = 2.718
ExpMilli(k) == CASE k = 0 -> 1000 [] k = 1 -> 2718

\* exp(y0**2) * (x1 - x) + y1 * (x - x0)
Numerator(e, y1, x0, x1, x) == e * (x1 - x) + y1 * (x - x0)

\* np.zeros(y0.shape)
Zeros(y0) == [i \in DOMAIN y0 |-> Fin(0, 1)]

\* return (np.exp(y0**2) * (x1 - x) + y1 * (x - x0)) / (x1 - x0), elementwise
linear_interpolate(y0, y1, x0, x1, x) ==
    Value([i \in DOMAIN y0 |->
        IeeeDiv(Numerator(ExpMilli(y0[i] ^ 2), y1[i], x0, x1, x), x1 - x0)])

\* ne.evaluate('(exp(y0**2) * (x1 - x) + y1 * (x - x0))  / (x1 - x0)')
linear_interpolate_numexpr(y0, y1, x0, x1, x) ==
    Value([i \in DOMAIN y0 |->
        IeeeDiv(Numerator(ExpMilli(y0[i] ^ 2), y1[i], x0, x1, x), x1 - x0)])

\* for n in range(len): out[n] = ... / (x1 - x0); a division that raises
\* ends the loop with the exception
RECURSIVE Loop(_, _, _, _, _, _, _, _)
Loop(out, n, y0, y1, x0, x1, x, divRaises) ==
    IF n > Len(y0) THEN Value(out)
    ELSE IF divRaises /\ x1 - x0 = 0 THEN Raised("ZeroDivisionError")
    ELSE Loop([out EXCEPT ![n] =
                  IeeeDiv(Numerator(ExpMilli(y0[n] ^ 2), y1[n], x0, x1, x), x1 - x0)],
              n + 1, y0, y1, x0, x1, x, divRaises)

\* @cython.cdivision(True): C division, no zero check;
\* result_view[i] = (exp(y0[i] * y0[i]) * (x1 - x) + y1[i] * (x - x0)) / (x1 - x0)
RECURSIVE CLoop(_, _, _, _, _, _, _)
CLoop(out, i, y0, y1, x0, x1, x) ==
    IF i > Len(y0) THEN Value(out)
    ELSE CLoop([out EXCEPT ![i] =
                   IeeeDiv(Numerator(ExpMilli(y0[i] * y0[i]), y1[i], x0, x1, x), x1 - x0)],
               i + 1, y0, y1, x0, x1, x)

linear_cython(y0, y1, x0, x1, x) == CLoop(Zeros(y0), 1, y0, y1, x0, x1, x)

\* plain Python: numba.prange is looked up when the body runs; the np.float64
\* quotient follows IEEE (a RuntimeWarning, no exception)
linear_interpolate_bad(bound, y0, y1, x0, x1, x) ==
    IF ~bound THEN Raised("NameError")
    ELSE Loop(Zeros(y0), 1, y0, y1, x0, x1, x, FALSE)

\* variant: error_model='numpy', a zero divisor gives inf or nan
NumbaDivNumpyModel == FALSE

\* @numba.njit: the default error_model='python' raises on a zero divisor
NumbaDivRaises == TRUE

linear_interpolate_good(y0, y1, x0, x1, x) ==
    Loop(Zeros(y0), 1, y0, y1, x0, x1, x, NumbaDivRaises)

\* @numba.njit(parallel=True, fastmath=True): with a zero divisor the parallel
\* loop body either raises, or yields the IEEE special, or (fastmath assumes
\* no inf/nan) an undefined value
linear_interpolate_best(y0, y1, x0, x1, x) ==
    IF x1 - x0 = 0 /\ Len(y0) > 0
    THEN {Raised("ZeroDivisionError"),
          Loop(Zeros(y0), 1, y0, y1, x0, x1, x, FALSE),
          Value([i \in DOMAIN y0 |-> Special("undef")])}
    ELSE {Loop(Zeros(y0), 1, y0, y1, x0, x1, x, FALSE)}

\* the outcomes a call of strategy s can have on the current inputs
Outcomes(s) ==
    CASE s = "linear_interpolate" ->
            {linear_interpolate(inY0, inY1, inX0, inX1, inX)}
      [] s = "linear_interpolate_numexpr" ->
            {linear_interpolate_numexpr(inY0, inY1, inX0, inX1, inX)}
      [] s = "linear_cython" ->
            {linear_cython(inY0, inY1, inX0, inX1, inX)}
      [] s = "linear_interpolate_bad" ->
            {linear_interpolate_bad(numbaBound, inY0, inY1, inX0, inX1, inX)}
      [] s = "linear_interpolate_good" ->
            {linear_interpolate_good(inY0, inY1, inX0, inX1, inX)}
      [] s = "linear_interpolate_best" ->
            linear_interpolate_best(inY0, inY1, inX0, inX1, inX)

InitInterp ==
    /\ haveArrays = FALSE
    /\ inY0 = <<>>
    /\ inY1 = <<>>
    /\ inX0 = 4
    /\ inX1 = 6
    /\ inX = 5
    /\ numbaBound = FALSE
    /\ results = [s \in Strategies |-> NotRun]

\* y0 = np.random.rand(n); y1 = np.random.rand(n), and the scalars of the
\* calls: drawn once, before the strategies are called on them
SetInputs ==
    /\ \A s \in Strategies : results[s] = NotRun
    /\ \E n \in 0..MaxLen :
       \E y0 \in [1..n -> Y0Values], y1 \in [1..n -> Y1Milli] :
       \E x0 \in X01Halves, x1 \in X01Halves, x \in XHalves :
        /\ inY0' = y0
        /\ inY1' = y1
        /\ inX0' = x0
        /\ inX1' = x1
        /\ inX' = x
    /\ haveArrays' = TRUE
    /\ UNCHANGED <<numbaBound, results>>
    /\ UNCHANGED <<poolVars, cacheVars, nbVars>>

\* import numba (the cell that also defines linear_interpolate_good)
ImportNumba ==
    /\ ~numbaBound
    /\ numbaBound' = TRUE
    /\ UNCHANGED <<haveArrays, inY0, inY1, inX0, inX1, inX, results>>
    /\ UNCHANGED <<poolVars, cacheVars, nbVars>>

\* the njit functions exist only once their cell (import numba; def ...) has run
Defined(s) ==
    s \in {"linear_interpolate_good", "linear_interpolate_best"} => numbaBound

\* a call of one strategy on the current inputs
CallStrategy ==
    \E s \in Strategies :
        /\ haveArrays
        /\ Defined(s)
        /\ \E o \in Outcomes(s) : results' = [results EXCEPT ![s] = o]
        /\ UNCHANGED <<haveArrays, inY0, inY1, inX0, inX1, inX, numbaBound>>
        /\ UNCHANGED <<poolVars, cacheVars, nbVars>>

NextInterp ==
    \/ SetInputs
    \/ ImportNumba
    \/ CallStrategy

(***************************************************************************)
(* The optimisation notebook, run cell by cell from the top                *)
(***************************************************************************)
Packages == {"numpy", "matplotlib", "numexpr", "vect", "cython", "numba"}
MagicNames == {"%%cython"}

Stmt(needs, reads, call, binds) ==
    [needs |-> needs, reads |-> reads, call |-> call, binds |-> binds]
Import(pkg, name) == Stmt(pkg, {}, "", {name})
StdImport(name) == Stmt("", {}, "", {name})
Def(name, decorators) == Stmt("", decorators, "", {name})
Call(fn, args) == Stmt("", {fn} \cup args, fn, {})
Assign(names, reads) == Stmt("", reads, "", names)

\* the global names a function's body looks up when it runs
FnGlobals(fn) ==
    CASE fn = "compute_a_slow_result" -> {}
      [] fn = "compute_a_slow_result_cache" -> {}
      [] fn = "linear_interpolate" -> {"np"}
      [] fn = "linear_interpolate_numexpr" -> {}
      [] fn = "linear_cython" -> {}
      [] fn = "linear_interpolate_bad" -> {"np", "numba"}
      [] fn = "linear_interpolate_good" -> {"np", "numba"}
      [] fn = "linear_interpolate_best" -> {"np", "numba"}
      [] fn = "mandelbrot_python" -> {"np"}
      [] fn = "mandelbrot_numba" -> {"np"}
      [] OTHER -> {}

\* the third-party package a function's body imports when it runs
FnImports(fn) ==
    IF fn = "linear_interpolate_numexpr" THEN "numexpr" ELSE ""

Y01 == {"y0", "y1"}

\* the code cells, each a sequence of statements (line: its first source line)
NbCells == <<
    [line |-> 321, stmts |-> <<Import("numpy", "np"), Import("matplotlib", "plt"),
                               Stmt("matplotlib", {}, "", {})>>],
    [line |-> 333, stmts |-> <<Stmt("", {}, "", {})>>],
    [line |-> 377, stmts |-> <<Def("compute_a_slow_result", {})>>],
    [line |-> 400, stmts |-> <<Call("compute_a_slow_result", {})>>],
    [line |-> 418, stmts |-> <<StdImport("lru_cache"),
                               Def("compute_a_slow_result_cache", {"lru_cache"})>>],
    [line |-> 436, stmts |-> <<Call("compute_a_slow_result_cache", {})>>],
    [line |-> 446, stmts |-> <<Call("compute_a_slow_result_cache", {})>>],
    [line |-> 466, stmts |-> <<StdImport("random"),
                               Call("compute_a_slow_result_cache", {"random"})>>],
    [line |-> 517, stmts |-> <<Def("linear_interpolate", {})>>],
    [line |-> 529, stmts |-> <<Assign({"n"}, {}), Assign({"y0"}, {"np", "n"}),
                               Assign({"y1"}, {"np", "n"}),
                               Call("linear_interpolate", Y01)>>],
    [line |-> 560, stmts |-> <<Def("linear_interpolate_numexpr", {})>>],
    [line |-> 573, stmts |-> <<Call("linear_interpolate_numexpr", Y01)>>],
    [line |-> 597, stmts |-> <<StdImport("sys"), Assign({}, {"sys"})>>],
    [line |-> 608, stmts |-> <<Import("vect", "vect"), Assign({}, {"vect"})>>],
    [line |-> 619, stmts |-> <<Assign({}, {"vect"} \cup Y01)>>],
    [line |-> 637, stmts |-> <<Import("cython", "%%cython")>>],
    [line |-> 647, stmts |-> <<Assign({"linear_cython"}, {"%%cython"})>>],
    [line |-> 684, stmts |-> <<Call("linear_cython", Y01)>>],
    [line |-> 702, stmts |-> <<Def("linear_interpolate_bad", {})>>],
    [line |-> 717, stmts |-> <<Call("linear_interpolate_bad", Y01)>>],
    [line |-> 727, stmts |-> <<Import("numba", "numba"),
                               Def("linear_interpolate_good", {"numba"})>>],
    [line |-> 745, stmts |-> <<Call("linear_interpolate_good", Y01)>>],
    [line |-> 755, stmts |-> <<Import("numba", "numba"),
                               Def("linear_interpolate_best", {"numba"})>>],
    [line |-> 773, stmts |-> <<Call("linear_interpolate_best", Y01)>>],
    [line |-> 791, stmts |-> <<Def("mandelbrot_python", {})>>],
    [line |-> 814, stmts |-> <<Assign({"size"}, {}), Assign({"iterations"}, {})>>],
    [line |-> 825, stmts |-> <<Call("mandelbrot_python", {"size", "iterations"})>>],
    [line |-> 835, stmts |-> <<Def("mandelbrot_numba", {"numba"})>>],
    [line |-> 859, stmts |-> <<Call("mandelbrot_numba", {"size", "iterations"})>>],
    [line |-> 869, stmts |-> <<Call("mandelbrot_numba", {"size", "iterations"}),
                               Assign({"m"}, {}), Assign({"fig", "ax"}, {"plt"}),
                               Assign({}, {"ax", "np", "m", "plt"}),
                               Assign({}, {"ax"})>>] >>

\* the names a statement looks up: its own, and those of the body it calls
Lookups(st) == st.reads \cup (IF st.call = "" THEN {} ELSE FnGlobals(st.call))

\* the package a statement imports: its own, or the one the called body imports
Needs(st) == IF st.needs # "" THEN st.needs
             ELSE IF st.call = "" THEN "" ELSE FnImports(st.call)

\* one statement in namespace names: the error it raises, or "ok"
StmtOutcome(st, names, avail) ==
    IF Lookups(st) \ names # {}
    THEN (IF (Lookups(st) \ names) \subseteq MagicNames
          THEN "UsageError" ELSE "NameError")
    ELSE IF Needs(st) # "" /\ Needs(st) \notin avail THEN "ModuleNotFoundError"
    ELSE "ok"

\* a cell runs its statements in order and stops at the first error
RECURSIVE ExecCell(_, _, _)
ExecCell(stmts, names, avail) ==
    IF stmts = <<>> THEN [ns |-> names, outcome |-> "ok"]
    ELSE LET o == StmtOutcome(Head(stmts), names, avail) IN
         IF o # "ok" THEN [ns |-> names, outcome |-> o]
         ELSE ExecCell(Tail(stmts), names \cup Head(stmts).binds, avail)

InitNb ==
    /\ nbPc = 0
    /\ env = {}
    /\ ns = {}
    /\ nbOutcome = <<>>

\* a fresh kernel, in an environment where some of the packages are installed
StartKernel ==
    /\ nbPc = 0
    /\ \E avail \in SUBSET Packages : env' = avail
    /\ nbPc' = 1
    /\ UNCHANGED <<ns, nbOutcome>>
    /\ UNCHANGED <<poolVars, cacheVars, interpVars>>

\* run the next cell; after an error the following cell is run all the same
RunCell ==
    /\ nbPc \in 1..Len(NbCells)
    /\ LET r == ExecCell(NbCells[nbPc].stmts, ns, env) IN
        /\ ns' = r.ns
        /\ nbOutcome' = Append(nbOutcome, r.outcome)
    /\ nbPc' = nbPc + 1
    /\ UNCHANGED env
    /\ UNCHANGED <<poolVars, cacheVars, interpVars>>

NextNb ==
    \/ StartKernel
    \/ RunCell

NextPool ==
    \/ EnterWith
    \/ Submit
    \/ WorkerGetItem
    \/ WorkerFinish
    \/ WorkerRelease
    \/ WorkerExit
    \/ MainNext
    \/ MainShutdown
    \/ MainLeave

Init == InitPool /\ InitCache /\ InitInterp /\ InitNb

SpecPool == Init /\ [][NextPool]_vars

SpecCache == Init /\ [][NextCache]_vars

SpecInterp == Init /\ [][NextInterp]_vars

SpecNb == Init /\ [][NextNb]_vars

(***************************************************************************)
(* Properties                                                              *)
(***************************************************************************)
Ran(s) == results[s] # NotRun

\* the value the formula gives for element i when x1 # x0
FormulaValue(i) ==
    Fin(ExpMilli(inY0[i] * inY0[i]) * (inX1 - inX) + inY1[i] * (inX - inX0),
        inX1 - inX0)

\* C1: the six strategies are interchangeable: every call of a strategy on the
\* current inputs returns an array of the length of y0 whose element i is
\* (exp(y0[i]^2)(x1-x) + y1[i](x-x0)) / (x1-x0), no call fails, and any two
\* strategies called on the same inputs have the same outcome.
C1_Interchangeable ==
    /\ \A s \in Strategies :
        Ran(s) =>
            /\ results[s].kind = "value"
            /\ Len(results[s].val) = Len(inY0)
            /\ inX1 # inX0 =>
                 \A i \in DOMAIN inY0 : results[s].val[i] = FormulaValue(i)
    /\ \A s, t \in Strategies : (Ran(s) /\ Ran(t)) => results[s] = results[t]

Called == last.arg # 0

\* the k most recently used distinct arguments of history h
MostRecent(h, k) == {h[i] : i \in {j \in DOMAIN h : j > Len(h) - k}}

\* C3 as stated: the body runs for x only on the first call made with x; every
\* later call with x returns the stored value without running the body,
\* whatever was passed in between.
C3_BodyOnlyOnFirstCall ==
    Called => (last.ran <=> last.arg \notin Range(last.histBefore))

\* C3 amended: a call runs the body exactly when its argument is not among the
\* 4 (maxsize) most recently used distinct arguments, that is on the first call
\* with x and again once 4 other distinct arguments were used since the last
\* call with x; otherwise the stored value is returned. Either way the value
\* returned is x*2.
C3_BodyIffNotAmongRecent ==
    Called =>
        /\ last.ran <=> last.arg \notin MostRecent(last.histBefore, CacheMaxsize)
        /\ last.result = last.arg * 2

\* C3 witness: a later call with x, three other arguments having been used in
\* between, returned the stored value without running the body.
C3_Witness ==
    /\ Called
    /\ ~last.ran
    /\ Len(last.histBefore) >= CacheMaxsize
    /\ last.histBefore[Len(last.histBefore) - CacheMaxsize + 1] = last.arg

\* C4: the cache never holds more than 4 entries, each an (argument, result)
\* pair of a distinct argument; a call with a new argument on a cache of 4
\* evicts exactly one entry, the least recently used one, and keeps 4.
C4_CacheBoundedLruEviction ==
    /\ Len(cache) <= CacheMaxsize
    /\ Cardinality(CacheKeys(cache)) = Len(cache)
    /\ \A i \in DOMAIN cache : cache[i].result = cache[i].key * 2
    /\ (Called /\ last.ran /\ Cardinality(last.keysBefore) = CacheMaxsize) =>
        LET lru == last.histBefore[Len(last.histBefore) - CacheMaxsize + 1] IN
        /\ lru \in last.keysBefore
        /\ CacheKeys(cache) = (last.keysBefore \ {lru}) \cup {last.arg}
        /\ Len(cache) = CacheMaxsize

\* C4 witness: a fifth distinct argument was passed to a cache holding 4.
C4_Witness ==
    /\ Called
    /\ last.ran
    /\ Cardinality(last.keysBefore) = CacheMaxsize
    /\ Len(cache) = CacheMaxsize

\* C5: with max_workers=8 the values handed over by map (and by the list of
\* future.result() calls) come in the order of the inputs: the i-th value is
\* f(tasks[i]) whatever the completion order, and once the iteration is over
\* exactly len(tasks) values were handed over.
C5_MapYieldsInInputOrder ==
    maxWorkers = MaxWorkersThreads =>
        /\ Len(yielded) <= NumTasks
        /\ \A i \in DOMAIN yielded : yielded[i] = f(i - 1)
        /\ mainPc \in {"join", "done"} => Len(yielded) = NumTasks

\* C5 witness: the last task has completed while the second is still running,
\* and only the first value has been handed over.
C5_Witness ==
    /\ maxWorkers = MaxWorkersThreads
    /\ Len(futState) = NumTasks
    /\ futState[NumTasks] = "finished"
    /\ futState[2] = "running"
    /\ Len(yielded) = 1

\* C6: a pool created with max_workers=k (1, 8 or 4) never has more than k
\* workers and never more than k work items executing at once; a submitted
\* item that is not yet executing waits in the queue.
C6_AtMostKExecuting ==
    /\ maxWorkers \in {0, MaxWorkersSingle, MaxWorkersThreads, MaxWorkersProcesses}
    /\ numThreads <= maxWorkers
    /\ Cardinality(Running) <= maxWorkers
    /\ \A i \in DOMAIN futState :
        futState[i] = "pending" => i \in Range(workQueue)

\* C6 witness: 8 work items are executing in the pool of 8 and the other two
\* wait in the queue.
C6_Witness ==
    /\ maxWorkers = MaxWorkersThreads
    /\ Cardinality(Running) = MaxWorkersThreads
    /\ Len(workQueue) = NumTasks - MaxWorkersThreads
    /\ \A i \in Range(workQueue) : futState[i] = "pending"

\* C7: once control has left the with block the pool is shut down, every work
\* item of the block is in a final state, no worker is running (every worker
\* has returned), and no work item has started since.
C7_PoolScopedToWithBlock ==
    mainPc = "done" =>
        /\ shutdownFlag
        /\ Len(futState) = Len(tasks)
        /\ \A i \in DOMAIN futState : futState[i] \in {"finished", "cancelled"}
        /\ Running = {}
        /\ releasing = 0
        /\ exitedThreads = numThreads
        /\ ~startedAfterExit

\* C7 witness: the block with the process pool of 4 has been left, all 4
\* workers having been started.
C7_Witness ==
    /\ mainPc = "done"
    /\ maxWorkers = MaxWorkersProcesses
    /\ numThreads = MaxWorkersProcesses
    /\ Len(yielded) = HashN

\* C8: with every package installed, running the cells of the optimisation
\* notebook from top to bottom never ends a cell in a NameError.
C8_NoNameError ==
    env = Packages => \A i \in DOMAIN nbOutcome : nbOutcome[i] # "NameError"

====
